---- MODULE Spec2Model ----
(***************************************************************************)
(* Model of the kuala-api request handlers.                                *)
(*                                                                         *)
(*  - POST /subscriptions (handlers/subscriptions/create.ts): every        *)
(*    request is a process that is suspended at each awaited fetch; an     *)
(*    action is "the billing engine answers the pending call and the       *)
(*    handler runs up to its next fetch or to its response".               *)
(*  - the billing engine (Kill Bill) is the environment: it holds the      *)
(*    accounts (by external key) and their bundles, answers truthfully     *)
(*    when it answers 2xx, and may fail any call.                          *)
(*  - the auth endpoints (authorize, exchange-token, refresh-token,        *)
(*    logout, me): one invocation, from its request to its fetch of the    *)
(*    identity provider, and from the answer to its response.              *)
(*  - authMiddleware, GET /plans and the 404 catch-all, in the same way.   *)
(*                                                                         *)
(* Spec    : concurrent POST /subscriptions requests of one user.          *)
(* SpecApi : one request on any endpoint.                                  *)
(***************************************************************************)
EXTENDS Integers, Sequences, FiniteSets, TLC

\* ------------------------------------------------------------------ bounds
NumReqs == 2                 \* concurrent POST /subscriptions requests

Reqs == 1..NumReqs

\* ------------------------------------------------------------------ values
Users == {"u1"}
NoUser == "NoUser"
NULL == "null"
Missing == "undefined"

\* subscriptions as the billing engine reports them (state, cancelledDate)
SubActive       == [state |-> "ACTIVE",    cancelledDate |-> NULL]
SubActiveEnding == [state |-> "ACTIVE",    cancelledDate |-> "2024-01-01"]
SubCancelled    == [state |-> "CANCELLED", cancelledDate |-> "2024-01-01"]
SubPending      == [state |-> "PENDING",   cancelledDate |-> NULL]
NoSub           == [state |-> "NONE",      cancelledDate |-> "NONE"]

\* bundles an account may hold before the first request is made
InitBundles ==
    { <<>>,
      << <<>> >>,
      << <<SubCancelled>> >>,
      << <<SubPending>>, <<SubActiveEnding>> >>,
      << <<SubActive>> >>,
      << <<SubCancelled>>, <<SubPending, SubActive>> >> }

\* request bodies of POST /subscriptions: unparsable, JSON null, or an object
Bodies ==
    { [kind |-> "badjson", planId |-> Missing],
      [kind |-> "null",    planId |-> Missing],
      [kind |-> "object",  planId |-> Missing],
      [kind |-> "object",  planId |-> ""],
      [kind |-> "object",  planId |-> "basic-monthly"] }

\* origins of the request URL
Origins == {"https://kuala-api.example.com"}

\* Location headers of the billing engine, as token sequences ("/" separates)
NoHeader == [present |-> FALSE, value |-> <<>>]
LocationHeaders ==
    { NoHeader,
      [present |-> TRUE, value |-> <<"kb", "/", "subscriptions", "/", "sub123">>],
      [present |-> TRUE, value |-> <<"kb", "/", "1.0", "/", "kb", "/", "subscriptions", "/", "sub456">>],
      [present |-> TRUE, value |-> <<"sub789">>] }

\* ------------------------------------------------------------------ auth endpoints: values
Falsy(x) == x \in {Missing, "", NULL}

\* request and configuration of one auth endpoint invocation
NoInput ==
    [redirect_to |-> Missing, code_challenge |-> Missing, bodyKind |-> "none",
     auth_code |-> Missing, code_verifier |-> Missing, refresh_token |-> Missing,
     authorization |-> Missing, apikey |-> Missing, baseUrl |-> Missing,
     interval |-> Missing, corsEnabled |-> Missing, corsOrigin |-> <<>>,
     method |-> "GET", originHeader |-> Missing]

RedirectTos == {Missing, "", "not-a-url", "https://app.example/cb"}
FieldValues == {Missing, "", "v"}
ApiKeys == {Missing, "", "anon-key"}
BaseUrls == {Missing, "https://idp.example", "not a url"}

\* new URL(x) succeeds
IsAbsoluteUrl(x) == x \in {"https://app.example/cb", "https://idp.example"}

\* new URL(path, Deno.env.get(...) || c.req.url) succeeds: the request's own
\* URL is always a valid base
BaseResolves(base) == Falsy(base) \/ IsAbsoluteUrl(base)

\* JSON documents the identity provider answers with; code 0 stands for an
\* absent (falsy) numeric code
NoData ==
    [kind |-> "none", code |-> 0, error_code |-> Missing,
     error_description |-> Missing, msg |-> Missing,
     id |-> Missing, email |-> Missing]
IdpData ==
    { [NoData EXCEPT !.kind = "badjson"], [NoData EXCEPT !.kind = "null"] }
    \cup [kind : {"object"}, code : {0, 403}, error_code : {Missing, "bad_jwt"},
          error_description : {Missing, "token expired"}, msg : {Missing, "invalid"},
          id : {Missing}, email : {Missing}]

IdpStatuses == {200, 201, 302, 400, 401, 500}
IdpLocations == {Missing, "https://idp.example/cb"}

IsOk(status) == status >= 200 /\ status <= 299

NoAuthResp ==
    [status |-> 0, code |-> "", message |-> "", location |-> Missing, data |-> NoData]

AuthError(status, code, message) ==
    [status |-> status, code |-> code, message |-> message, location |-> Missing,
     data |-> NoData]

\* variant: no catch at the endpoint boundary, the exception escapes and the
\* handler produces no response
InternalError_Escapes ==
    [status |-> 0, code |-> "UNCAUGHT", message |-> "", location |-> Missing,
     data |-> NoData]

\* the response of the catch at the endpoint boundary
InternalError == AuthError(500, "INTERNAL_ERROR", "Internal server error")

\* an answer of the identity provider: a response (status, Location header,
\* body) or a network error; NoAnswer before there is one
NoAnswer == [kind |-> "none", status |-> 0, location |-> Missing, data |-> NoData]

NoResp == [status |-> 0, code |-> "", message |-> "", location |-> <<>>, body |-> "none"]
Thrown == [state |-> "THROWN", cancelledDate |-> "NONE"]

\* the CORS headers of a response (Missing: the header is not set)
NoCorsHeaders ==
    [allowOrigin |-> Missing, allowHeaders |-> Missing, allowMethods |-> Missing,
     maxAge |-> Missing]

\* ------------------------------------------------------------------ state
VARIABLES
    account,     \* billing engine: external key -> an account exists
    bundles,     \* billing engine: account -> its bundles
    pc,          \* request -> the fetch it is suspended at
    user,        \* request -> user in the request context (or NoUser)
    body,        \* request -> its body
    origin,      \* request -> origin of its URL
    acct,        \* request -> accountId the handler holds
    resp,        \* request -> its response
    calls,       \* request -> billing-engine calls issued, in order
    outs,        \* request -> how each answered call was answered, in order
    chk,         \* request -> the bundles its bundles fetch returned
    subLoc,      \* request -> Location header of the answer to its subscription creation
    existedAtCreate, \* request -> an account existed when it issued the creation call
    activeAtCheck,   \* request -> the account held an active subscription when the check was answered
    aPc,         \* auth endpoint invocation: "idle", "fetch" (suspended at the fetch), "done"
    aEndpoint,   \* auth endpoint invoked
    aIn,         \* its request and configuration
    aResp,       \* its response
    aCalls,      \* number of identity-provider calls it issued
    aAns,        \* the identity provider's answer to its call
    nextCalled,  \* authMiddleware called the next handler
    ctxUser,     \* the user authMiddleware stored in the request context
    catalogs,    \* the catalog versions the billing engine answered GET /plans with
    plansOut,    \* the plans GET /plans responded with
    corsOut      \* the CORS headers corsMiddleware set on the response

subVars == <<account, bundles, pc, user, body, origin, acct, resp, calls, outs,
             chk, subLoc, existedAtCreate, activeAtCheck>>
authVars == <<aPc, aEndpoint, aIn, aResp, aCalls, aAns, nextCalled, ctxUser,
              catalogs, plansOut, corsOut>>
vars == <<subVars, authVars>>

\* ------------------------------------------------------------------ helpers
RECURSIVE Flatten(_)
Flatten(bs) ==
    IF bs = <<>> THEN <<>> ELSE Head(bs) \o Flatten(Tail(bs))

\* create.ts 186-208: first subscription, in bundle order, that is ACTIVE and
\* has a falsy cancelledDate; NoSub (null) when there is none
\* variant: the cancelledDate test without its negation
IsBlocking_CancelledOnly(sub) == sub.state = "ACTIVE" /\ sub.cancelledDate # NULL

\* variant: the state alone decides
IsBlocking_StateOnly(sub) == sub.state = "ACTIVE"

IsBlocking(sub) == sub.state = "ACTIVE" /\ sub.cancelledDate = NULL

firstBlocking(subs) ==
    LET hits == {i \in 1..Len(subs) : IsBlocking(subs[i])}
    IN IF hits = {} THEN NoSub
       ELSE subs[CHOOSE i \in hits : \A j \in hits : i <= j]

\* variant: only the first bundle is scanned
scanBundles_FirstBundle(bs) ==
    IF bs = <<>> THEN NoSub ELSE firstBlocking(Head(bs))

\* create.ts 186-208: the loops over the bundles and their subscriptions
scanBundles(bs) == firstBlocking(Flatten(bs))

\* variant: a failed fetch is thrown on instead of absorbed
checkExistingSubscription_Rethrows(outcome, bs) ==
    IF outcome = "ok" THEN scanBundles(bs) ELSE Thrown

\* create.ts 150-215: checkExistingSubscription, given the outcome of the fetch
checkExistingSubscription(outcome, bs) ==
    IF outcome = "ok" THEN scanBundles(bs) ELSE NoSub

\* String.split("/").pop() on a token sequence
RECURSIVE lastSegment(_)
lastSegment(toks) ==
    IF toks = <<>> THEN <<>>
    ELSE IF toks[Len(toks)] = "/" THEN <<>>
    ELSE lastSegment(SubSeq(toks, 1, Len(toks) - 1)) \o <<toks[Len(toks)]>>

\* variant: no "unknown" fallback
subscriptionIdOf_NoFallback(hdr) == lastSegment(hdr.value)

\* create.ts 273-274: response.headers.get("Location")?.split("/").pop() || "unknown"
subscriptionIdOf(hdr) ==
    IF ~hdr.present THEN <<"unknown">>
    ELSE IF lastSegment(hdr.value) = <<>> THEN <<"unknown">>
    ELSE lastSegment(hdr.value)

\* create.ts 352-356
locationOf(org, id) == <<org, "/", "subscriptions", "/">> \o id

\* create.ts 306-309, 330-333, 345-348, 365-368: the message of each code
MessageOf(code) ==
    CASE code = "MISSING_PLAN_ID" -> "planId is required"
      [] code = "ALREADY_SUBSCRIBED" -> "Already subscribed to a non-cancellable plan"
      [] OTHER -> "Failed to create subscription"

ErrorJson(status, code) ==
    [status |-> status, code |-> code, message |-> MessageOf(code),
     location |-> <<>>, body |-> "error"]

Created(org, id) ==
    [status |-> 201, code |-> "", message |-> "", location |-> locationOf(org, id),
     body |-> "null"]

\* ------------------------------------------------------------------ init
Init ==
    /\ account \in [Users -> BOOLEAN]
    /\ bundles \in [Users -> InitBundles]
    /\ \A u \in Users : ~account[u] => bundles[u] = <<>>
    /\ pc = [r \in Reqs |-> "idle"]
    /\ user = [r \in Reqs |-> NoUser]
    /\ body = [r \in Reqs |-> [kind |-> "badjson", planId |-> Missing]]
    /\ origin = [r \in Reqs |-> "none"]
    /\ acct = [r \in Reqs |-> "none"]
    /\ resp = [r \in Reqs |-> NoResp]
    /\ calls = [r \in Reqs |-> <<>>]
    /\ outs = [r \in Reqs |-> <<>>]
    /\ chk = [r \in Reqs |-> <<>>]
    /\ subLoc = [r \in Reqs |-> NoHeader]
    /\ existedAtCreate = [r \in Reqs |-> FALSE]
    /\ activeAtCheck = [r \in Reqs |-> FALSE]
    /\ aPc = "idle"
    /\ aEndpoint = "none"
    /\ aIn = NoInput
    /\ aResp = NoAuthResp
    /\ aCalls = 0
    /\ aAns = NoAnswer
    /\ nextCalled = FALSE
    /\ ctxUser = NoData
    /\ catalogs = <<>>
    /\ plansOut = <<>>
    /\ corsOut = NoCorsHeaders

\* ------------------------------------------------------------------ POST /subscriptions
Proceed == NoResp

\* create.ts 293 with middleware getUser: the user of the context, or a throw
getUser(u) == IF u = NoUser THEN "THROWN" ELSE u

\* variant: the body is validated before the user is resolved
validateRequest_BodyFirst(u, b) ==
    IF b.kind # "object" THEN ErrorJson(500, "INTERNAL_ERROR")
    ELSE IF b.planId \in {Missing, ""} THEN ErrorJson(400, "MISSING_PLAN_ID")
    ELSE IF getUser(u) = "THROWN" THEN ErrorJson(500, "INTERNAL_ERROR")
    ELSE Proceed

\* create.ts 291-311: what the handler answers before its first fetch
\* (Proceed: nothing, it goes on to the account lookup)
validateRequest(u, b) ==
    IF getUser(u) = "THROWN" THEN ErrorJson(500, "INTERNAL_ERROR")
    ELSE IF b.kind # "object" THEN ErrorJson(500, "INTERNAL_ERROR")
    ELSE IF b.planId \in {Missing, ""} THEN ErrorJson(400, "MISSING_PLAN_ID")
    ELSE Proceed

\* variant: the account found is not returned
accountFound_Never(outcome) == FALSE

\* create.ts 65-71: the lookup yields an account
accountFound(outcome) == outcome = "ok"

\* variant: the Location header is not required
accountCreated_AnyOk(outcome) == outcome \in {"ok", "okNoLocation"}

\* create.ts 105-119: the creation answer lets the handler go on to the re-fetch
accountCreated(outcome) == outcome = "ok"

\* create.ts 132-144: the re-fetch yields the account
accountFetched(outcome) == outcome = "ok"

\* variant: no inner catch, the outer one answers
creationFailed_OuterCatch == ErrorJson(500, "INTERNAL_ERROR")

\* create.ts 344-350: answer when createKillBillSubscription throws
creationFailed == ErrorJson(500, "SUBSCRIPTION_CREATION_FAILED")

\* create.ts 359-370: answer of the outer catch
unexpectedError == ErrorJson(500, "INTERNAL_ERROR")

Finish(r, response) ==
    /\ pc' = [pc EXCEPT ![r] = "done"]
    /\ resp' = [resp EXCEPT ![r] = response]

\* variant: a call is sent again right after it is sent
Issue_Resent(r, call) ==
    /\ pc' = [pc EXCEPT ![r] = call]
    /\ calls' = [calls EXCEPT ![r] = Append(Append(@, call), call)]
    /\ UNCHANGED resp

Issue(r, call) ==
    /\ pc' = [pc EXCEPT ![r] = call]
    /\ calls' = [calls EXCEPT ![r] = Append(@, call)]
    /\ UNCHANGED resp

Answered(r, outcome) == outs' = [outs EXCEPT ![r] = Append(@, outcome)]

\* create.ts 287-317: getUser, body parse, planId check, first fetch issued
HandleStart(r) ==
    /\ pc[r] = "idle"
    /\ \E u \in Users \cup {NoUser}, b \in Bodies, o \in Origins :
        /\ user' = [user EXCEPT ![r] = u]
        /\ body' = [body EXCEPT ![r] = b]
        /\ origin' = [origin EXCEPT ![r] = o]
        /\ IF validateRequest(u, b) # Proceed
             THEN Finish(r, validateRequest(u, b)) /\ UNCHANGED calls
             ELSE Issue(r, "lookup")
    /\ UNCHANGED <<account, bundles, acct, outs, chk, subLoc, existedAtCreate,
                   activeAtCheck, authVars>>

\* create.ts 54-103: the account lookup is answered; on anything but a parsed
\* 2xx the account-creation call is issued. The engine answers 2xx only for
\* an external key that has an account.
LookupReturn(r) ==
    /\ pc[r] = "lookup"
    /\ \E outcome \in {"ok", "badjson", "non2xx", "neterr"} :
        /\ outcome \in {"ok", "badjson"} => account[user[r]]
        /\ Answered(r, outcome)
        /\ IF accountFound(outcome)
             THEN /\ acct' = [acct EXCEPT ![r] = user[r]]
                  /\ Issue(r, "bundles")
                  /\ UNCHANGED existedAtCreate
             ELSE /\ Issue(r, "createAccount")
                  /\ existedAtCreate' = [existedAtCreate EXCEPT ![r] = account[user[r]]]
                  /\ UNCHANGED acct
    /\ UNCHANGED <<account, bundles, user, body, origin, chk, subLoc, activeAtCheck,
                   authVars>>

\* create.ts 92-130: the account creation is answered. The engine keeps the
\* external key unique: it creates the account only when the key is free.
CreateAccountReturn(r) ==
    /\ pc[r] = "createAccount"
    /\ \E outcome \in {"ok", "okNoLocation", "non2xx", "neterr"} :
        /\ outcome \in {"ok", "okNoLocation"} => ~account[user[r]]
        /\ Answered(r, outcome)
        /\ IF outcome \in {"ok", "okNoLocation"}
             THEN account' = [account EXCEPT ![user[r]] = TRUE]
             ELSE UNCHANGED account
        /\ IF accountCreated(outcome)
             THEN Issue(r, "refetch")
             ELSE Finish(r, unexpectedError) /\ UNCHANGED calls
    /\ UNCHANGED <<bundles, user, body, origin, acct, chk, subLoc, existedAtCreate,
                   activeAtCheck, authVars>>

\* create.ts 122-144 and 313-322: the re-fetch of the Location URL is answered
RefetchReturn(r) ==
    /\ pc[r] = "refetch"
    /\ \E outcome \in {"ok", "non2xx", "neterr"} :
        /\ Answered(r, outcome)
        /\ IF accountFetched(outcome)
             THEN /\ acct' = [acct EXCEPT ![r] = user[r]]
                  /\ Issue(r, "bundles")
             ELSE /\ Finish(r, unexpectedError)
                  /\ UNCHANGED <<calls, acct>>
    /\ UNCHANGED <<account, bundles, user, body, origin, chk, subLoc, existedAtCreate,
                   activeAtCheck, authVars>>

\* create.ts 168-215 and 319-343: the bundles fetch is answered
BundlesReturn(r) ==
    /\ pc[r] = "bundles"
    /\ \E outcome \in {"ok", "badjson", "non2xx", "neterr"} :
        LET returned == IF outcome = "ok" THEN bundles[acct[r]] ELSE <<>>
            existingSubscription == checkExistingSubscription(outcome, returned)
        IN /\ Answered(r, outcome)
           /\ chk' = [chk EXCEPT ![r] = returned]
           /\ activeAtCheck' = [activeAtCheck EXCEPT ![r] =
                    \E i \in 1..Len(bundles[acct[r]]) :
                      \E j \in 1..Len(bundles[acct[r]][i]) :
                        bundles[acct[r]][i][j] = SubActive]
           /\ IF existingSubscription = Thrown
                THEN Finish(r, unexpectedError) /\ UNCHANGED calls
              ELSE IF existingSubscription # NoSub
                THEN Finish(r, ErrorJson(409, "ALREADY_SUBSCRIBED")) /\ UNCHANGED calls
              ELSE Issue(r, "createSub")
    /\ UNCHANGED <<account, bundles, user, body, origin, acct, subLoc, existedAtCreate,
                   authVars>>

\* variant: the engine keeps one active subscription per account and answers
\* a further creation without adding one
withNewSubscription_OnePerAccount(bs) ==
    IF \E i \in 1..Len(bs) : \E j \in 1..Len(bs[i]) : bs[i][j] = SubActive
      THEN bs ELSE Append(bs, <<SubActive>>)

\* create.ts 249-271: the engine answers the POST of a subscription with 2xx;
\* the created subscription is a new bundle holding one ACTIVE subscription
withNewSubscription(bs) == Append(bs, <<SubActive>>)

\* create.ts 249-280 and 338-358: the subscription creation is answered
CreateSubReturn(r) ==
    /\ pc[r] = "createSub"
    /\ \E outcome \in {"ok", "non2xx", "neterr"}, hdr \in LocationHeaders :
        /\ Answered(r, outcome)
        /\ subLoc' = [subLoc EXCEPT ![r] = hdr]
        /\ IF outcome = "ok"
             THEN /\ bundles' = [bundles EXCEPT ![acct[r]] = withNewSubscription(@)]
                  /\ Finish(r, Created(origin[r], subscriptionIdOf(hdr)))
             ELSE /\ hdr = NoHeader
                  /\ Finish(r, creationFailed)
                  /\ UNCHANGED bundles
    /\ UNCHANGED <<account, user, body, origin, acct, calls, chk, existedAtCreate,
                   activeAtCheck, authVars>>

handleCreateSubscription(r) ==
    \/ HandleStart(r)
    \/ LookupReturn(r)
    \/ CreateAccountReturn(r)
    \/ RefetchReturn(r)
    \/ BundlesReturn(r)
    \/ CreateSubReturn(r)

\* ------------------------------------------------------------------ auth endpoints
AuthBegin(endpoint, input) ==
    /\ aPc = "idle"
    /\ aEndpoint' = endpoint
    /\ aIn' = input

AuthFinish(response) ==
    /\ aPc' = "done"
    /\ aResp' = response

\* variant: the call is sent a second time
AuthFetch_Twice ==
    /\ aPc' = "fetch"
    /\ aCalls' = aCalls + 2
    /\ UNCHANGED aResp

AuthFetch ==
    /\ aPc' = "fetch"
    /\ aCalls' = aCalls + 1
    /\ UNCHANGED aResp

\* a || b || c on optional fields
OrElse(a, b) == IF Falsy(a) THEN b ELSE a

OrElseNum(a, b) == IF a = 0 THEN b ELSE a

\* variant: no default code and no default message
SupabaseError_NoFallback(status, data) ==
    AuthError(OrElseNum(data.code, OrElseNum(status, 500)),
              data.error_code,
              OrElse(data.error_description, data.msg))

\* exchange-token.ts 110-116, me.ts 101-107, logout 92-98
SupabaseError(status, data) ==
    AuthError(OrElseNum(data.code, OrElseNum(status, 500)),
              OrElse(data.error_code, "SUPABASE_ERROR"),
              OrElse(data.error_description, OrElse(data.msg, "Error from Supabase")))

\* refresh-token.ts 57-62
RefreshError(data) ==
    AuthError(OrElseNum(data.code, 500),
              OrElse(data.error_code, "SUPABASE_ERROR"),
              OrElse(data.msg, "Error from Supabase"))

PassThrough(data) ==
    [status |-> 200, code |-> "", message |-> "", location |-> Missing, data |-> data]

\* logout 107: c.body(null, 204)
NoContent == [NoAuthResp EXCEPT !.status = 204]

\* variant: the URL syntax of redirect_to is checked before code_challenge
authorizeValidation_UrlFirst(in) ==
    IF Falsy(in.redirect_to)
      THEN AuthError(400, "MISSING_REDIRECT_TO", "redirect_to parameter is required")
    ELSE IF ~IsAbsoluteUrl(in.redirect_to)
      THEN AuthError(400, "INVALID_REDIRECT_TO", "redirect_to must be a valid URL")
    ELSE IF Falsy(in.code_challenge)
      THEN AuthError(400, "MISSING_CODE_CHALLENGE", "code_challenge parameter is required")
    ELSE IF ~BaseResolves(in.baseUrl) THEN InternalError
    ELSE NoAuthResp

\* plans/index.ts 250-313 (handleAuthorize): what the handler answers before
\* its fetch (NoAuthResp: nothing, it goes on to the fetch)
authorizeValidation(in) ==
    IF Falsy(in.redirect_to)
      THEN AuthError(400, "MISSING_REDIRECT_TO", "redirect_to parameter is required")
    ELSE IF Falsy(in.code_challenge)
      THEN AuthError(400, "MISSING_CODE_CHALLENGE", "code_challenge parameter is required")
    ELSE IF ~IsAbsoluteUrl(in.redirect_to)
      THEN AuthError(400, "INVALID_REDIRECT_TO", "redirect_to must be a valid URL")
    ELSE IF ~BaseResolves(in.baseUrl) THEN InternalError
    ELSE NoAuthResp

MissingApiKey == AuthError(500, "MISSING_API_KEY", "Supabase API key not configured")

\* variant: the API key is resolved before the fields are checked
exchangeValidation_KeyFirst(in) ==
    IF in.bodyKind # "object" THEN InternalError
    ELSE IF Falsy(in.apikey) THEN MissingApiKey
    ELSE IF Falsy(in.auth_code)
      THEN AuthError(400, "MISSING_AUTH_CODE", "auth_code is required")
    ELSE IF Falsy(in.code_verifier)
      THEN AuthError(400, "MISSING_CODE_VERIFIER", "code_verifier is required")
    ELSE IF ~BaseResolves(in.baseUrl) THEN InternalError
    ELSE NoAuthResp

\* exchange-token.ts 13-69
exchangeValidation(in) ==
    IF in.bodyKind # "object" THEN InternalError
    ELSE IF Falsy(in.auth_code)
      THEN AuthError(400, "MISSING_AUTH_CODE", "auth_code is required")
    ELSE IF Falsy(in.code_verifier)
      THEN AuthError(400, "MISSING_CODE_VERIFIER", "code_verifier is required")
    ELSE IF ~BaseResolves(in.baseUrl) THEN InternalError
    ELSE IF Falsy(in.apikey) THEN MissingApiKey
    ELSE NoAuthResp

\* refresh-token.ts 9-41
refreshValidation(in) ==
    IF in.bodyKind # "object" THEN InternalError
    ELSE IF Falsy(in.refresh_token)
      THEN AuthError(400, "MISSING_REFRESH_TOKEN", "refresh_token is required")
    ELSE IF ~BaseResolves(in.baseUrl) THEN InternalError
    ELSE IF Falsy(in.apikey) THEN MissingApiKey
    ELSE NoAuthResp

\* variant: the API key is not required
headerValidation_NoKeyCheck(in) ==
    IF Falsy(in.authorization)
      THEN AuthError(401, "MISSING_AUTHORIZATION", "Authorization header is required")
    ELSE IF ~BaseResolves(in.baseUrl) THEN InternalError
    ELSE NoAuthResp

\* me.ts 13-57 and logout 13-57
headerValidation(in) ==
    IF Falsy(in.authorization)
      THEN AuthError(401, "MISSING_AUTHORIZATION", "Authorization header is required")
    ELSE IF ~BaseResolves(in.baseUrl) THEN InternalError
    ELSE IF Falsy(in.apikey) THEN MissingApiKey
    ELSE NoAuthResp

\* the handler runs from its start to its fetch or to its response
AuthStart(endpoint, input, verdict) ==
    /\ AuthBegin(endpoint, input)
    /\ IF verdict # NoAuthResp
         THEN AuthFinish(verdict) /\ UNCHANGED aCalls
         ELSE AuthFetch
    /\ UNCHANGED <<subVars, corsOut, aAns, nextCalled, ctxUser, catalogs, plansOut>>

AuthorizeStart ==
    \E rt \in RedirectTos, cc \in {Missing, "", "abc"}, base \in BaseUrls :
        LET in == [NoInput EXCEPT !.redirect_to = rt, !.code_challenge = cc,
                                  !.baseUrl = base]
        IN AuthStart("authorize", in, authorizeValidation(in))

\* answers of the identity provider to the OAuth authorization call
OAuthAnswers ==
    [kind : {"resp"}, status : IdpStatuses, location : IdpLocations, data : {NoData}]
    \cup {[NoAnswer EXCEPT !.kind = "neterr"]}

\* variant: the downstream status is not passed through
authorizeResponse_Fixed500(ans) ==
    IF ans.kind = "neterr" THEN InternalError
    ELSE IF ~IsOk(ans.status) /\ ans.status # 302
      THEN AuthError(500, "SUPABASE_OAUTH_ERROR",
                     "Sorry, we encountered an error with the OAuth provider")
    ELSE IF Falsy(ans.location)
      THEN AuthError(500, "NO_REDIRECT_LOCATION", "No redirect location found")
    ELSE [NoAuthResp EXCEPT !.status = 302, !.location = ans.location]

\* plans/index.ts 321-374: the response of handleAuthorize to the answer of
\* its fetch
authorizeResponse(ans) ==
    IF ans.kind = "neterr" THEN InternalError
    ELSE IF ~IsOk(ans.status) /\ ans.status # 302
      THEN AuthError(ans.status, "SUPABASE_OAUTH_ERROR",
                     "Sorry, we encountered an error with the OAuth provider")
    ELSE IF Falsy(ans.location)
      THEN AuthError(500, "NO_REDIRECT_LOCATION", "No redirect location found")
    ELSE [NoAuthResp EXCEPT !.status = 302, !.location = ans.location]

\* handleAuthorize from the answer of its fetch
AuthorizeReturn ==
    /\ aPc = "fetch" /\ aEndpoint = "authorize"
    /\ \E ans \in OAuthAnswers :
        /\ aAns' = ans
        /\ AuthFinish(authorizeResponse(ans))
    /\ UNCHANGED <<subVars, corsOut, aEndpoint, aIn, aCalls, nextCalled, ctxUser, catalogs,
                   plansOut>>

ExchangeStart ==
    \E bk \in {"badjson", "null", "object"}, ac \in FieldValues,
       cv \in FieldValues, key \in ApiKeys, base \in BaseUrls :
        /\ bk # "object" => (ac = Missing /\ cv = Missing)
        /\ LET in == [NoInput EXCEPT !.bodyKind = bk, !.auth_code = ac,
                                     !.code_verifier = cv, !.apikey = key,
                                     !.baseUrl = base]
           IN AuthStart("exchange-token", in, exchangeValidation(in))

RefreshStart ==
    \E bk \in {"badjson", "null", "object"}, rt \in FieldValues,
       key \in ApiKeys, base \in BaseUrls :
        /\ bk # "object" => rt = Missing
        /\ LET in == [NoInput EXCEPT !.bodyKind = bk, !.refresh_token = rt,
                                     !.apikey = key, !.baseUrl = base]
           IN AuthStart("refresh-token", in, refreshValidation(in))

HeaderStart(endpoint) ==
    \E az \in {Missing, "", "Bearer t"}, key \in ApiKeys, base \in BaseUrls :
        LET in == [NoInput EXCEPT !.authorization = az, !.apikey = key,
                                  !.baseUrl = base]
        IN AuthStart(endpoint, in, headerValidation(in))

LogoutStart == HeaderStart("logout")

MeStart == HeaderStart("me")

\* answers of the identity provider to a token, logout or user call
\* (status 0: a response object without a status)
IdpAnswers ==
    [kind : {"resp"}, status : IdpStatuses \cup {0}, location : {Missing}, data : IdpData]
    \cup {[NoAnswer EXCEPT !.kind = "neterr"]}

\* variant: the downstream status is forwarded on success
exchangeResponse_ForwardsStatus(ans) ==
    IF ans.kind = "neterr" \/ ans.data.kind # "object" THEN InternalError
    ELSE IF ~IsOk(ans.status) THEN SupabaseError(ans.status, ans.data)
    ELSE [PassThrough(ans.data) EXCEPT !.status = ans.status]

\* exchange-token.ts 88-133 and me.ts 75-126: the body is parsed and read
\* first, then the status decides
exchangeResponse(ans) ==
    IF ans.kind = "neterr" \/ ans.data.kind # "object" THEN InternalError
    ELSE IF ~IsOk(ans.status) THEN SupabaseError(ans.status, ans.data)
    ELSE PassThrough(ans.data)

ExchangeReturn ==
    /\ aPc = "fetch" /\ aEndpoint \in {"exchange-token", "me"}
    /\ \E ans \in IdpAnswers :
        /\ aAns' = ans
        /\ AuthFinish(exchangeResponse(ans))
    /\ UNCHANGED <<subVars, corsOut, aEndpoint, aIn, aCalls, nextCalled, ctxUser, catalogs,
                   plansOut>>

\* refresh-token.ts 43-73: the body is parsed, and read only on failure
refreshResponse(ans) ==
    IF ans.kind = "neterr" \/ ans.data.kind = "badjson" THEN InternalError
    ELSE IF ~IsOk(ans.status)
      THEN IF ans.data.kind # "object" THEN InternalError
           ELSE RefreshError(ans.data)
    ELSE PassThrough(ans.data)

RefreshReturn ==
    /\ aPc = "fetch" /\ aEndpoint = "refresh-token"
    /\ \E ans \in IdpAnswers :
        /\ aAns' = ans
        /\ AuthFinish(refreshResponse(ans))
    /\ UNCHANGED <<subVars, corsOut, aEndpoint, aIn, aCalls, nextCalled, ctxUser, catalogs,
                   plansOut>>

\* variant: the body is parsed before the status is looked at
logoutResponse_ParsesBody(ans) ==
    IF ans.kind = "neterr" \/ ans.data.kind # "object" THEN InternalError
    ELSE IF ~IsOk(ans.status) THEN SupabaseError(ans.status, ans.data)
    ELSE NoContent

\* logout 75-116: the body is parsed and read only on failure
logoutResponse(ans) ==
    IF ans.kind = "neterr" THEN InternalError
    ELSE IF ~IsOk(ans.status)
      THEN IF ans.data.kind # "object" THEN InternalError
           ELSE SupabaseError(ans.status, ans.data)
    ELSE NoContent

LogoutReturn ==
    /\ aPc = "fetch" /\ aEndpoint = "logout"
    /\ \E ans \in IdpAnswers :
        /\ aAns' = ans
        /\ AuthFinish(logoutResponse(ans))
    /\ UNCHANGED <<subVars, corsOut, aEndpoint, aIn, aCalls, nextCalled, ctxUser, catalogs,
                   plansOut>>

\* ------------------------------------------------------------------ authMiddleware
\* user documents the identity provider answers GET /auth/v1/user with
NullUser == [NoData EXCEPT !.kind = "null"]
UserData ==
    { [NoData EXCEPT !.kind = "badjson"], NullUser }
    \cup {[NoData EXCEPT !.kind = "object", !.id = i, !.email = e] :
            i \in {Missing, "u1"}, e \in {Missing, "", "u1@example.com"}}

UserAnswers ==
    [kind : {"resp"}, status : IdpStatuses, location : {Missing}, data : UserData]
    \cup {[NoAnswer EXCEPT !.kind = "neterr"]}

Unauthorized == AuthError(401, "UNAUTHORIZED", "Invalid or expired token")

\* the exception left the function: there is no response
Raised == [NoAuthResp EXCEPT !.code = "RAISED"]

\* plans/index.ts 438-453 and 385-397: what authMiddleware does before the
\* fetch of getAuthenticatedUser (NoAuthResp: nothing, the fetch is issued).
\* The URL is built outside the try of getAuthenticatedUser.
middlewareValidation(in) ==
    IF Falsy(in.authorization)
      THEN AuthError(401, "MISSING_AUTHORIZATION", "Authorization header is required")
    ELSE IF ~BaseResolves(in.baseUrl) THEN Raised
    ELSE IF Falsy(in.apikey) THEN Unauthorized
    ELSE NoAuthResp

\* variant: the body of a failure answer is taken for the user
getAuthenticatedUser_IgnoresStatus(ans) ==
    IF ans.kind = "neterr" THEN NullUser
    ELSE IF ans.data.kind = "badjson" THEN NullUser
    ELSE ans.data

\* plans/index.ts 403-431: the user getAuthenticatedUser returns for the
\* answer of its fetch (NullUser: null)
getAuthenticatedUser(ans) ==
    IF ans.kind = "neterr" THEN NullUser
    ELSE IF ~IsOk(ans.status) THEN NullUser
    ELSE IF ans.data.kind = "badjson" THEN NullUser
    ELSE ans.data

\* variant: the email is not required
userAccepted_IdOnly(u) == u.kind = "object" /\ ~Falsy(u.id)

\* plans/index.ts 454: !user || !user.id || !user.email is false
userAccepted(u) == u.kind = "object" /\ ~Falsy(u.id) /\ ~Falsy(u.email)

\* plans/index.ts 438-453: authMiddleware up to the fetch
MiddlewareStart ==
    \E az \in {Missing, "", "Bearer t"}, key \in ApiKeys, base \in BaseUrls :
        LET in == [NoInput EXCEPT !.authorization = az, !.apikey = key,
                                  !.baseUrl = base]
            verdict == middlewareValidation(in)
        IN /\ AuthBegin("authMiddleware", in)
           /\ IF verdict = Raised
                THEN aPc' = "raised" /\ UNCHANGED <<aResp, aCalls>>
              ELSE IF verdict # NoAuthResp
                THEN AuthFinish(verdict) /\ UNCHANGED aCalls
              ELSE AuthFetch
           /\ UNCHANGED <<subVars, corsOut, aAns, nextCalled, ctxUser, catalogs, plansOut>>

\* plans/index.ts 453-472: authMiddleware from the answer of the fetch
MiddlewareReturn ==
    /\ aPc = "fetch" /\ aEndpoint = "authMiddleware"
    /\ \E ans \in UserAnswers :
        LET u == getAuthenticatedUser(ans)
        IN /\ aAns' = ans
           /\ IF userAccepted(u)
                THEN /\ ctxUser' = u
                     /\ nextCalled' = TRUE
                     /\ aPc' = "done"
                     /\ UNCHANGED aResp
                ELSE /\ AuthFinish(Unauthorized)
                     /\ UNCHANGED <<ctxUser, nextCalled>>
    /\ UNCHANGED <<subVars, corsOut, aEndpoint, aIn, aCalls, catalogs, plansOut>>

\* ------------------------------------------------------------------ GET /plans
\* plan names are token sequences; toLowerCase acts on each token
KbPlan(name, phases) == [name |-> name, phases |-> phases]

\* part_009 100-107: prettyName may be absent
KbProduct(name, prettyName, plans) ==
    [name |-> name, prettyName |-> prettyName, plans |-> plans]

BasicMonthly == KbPlan(<<"basic", "-", "monthly">>, <<"EVERGREEN">>)
BasicAnnual == KbPlan(<<"basic", "-", "annual">>, <<"TRIAL", "EVERGREEN">>)
BasicTrial == KbPlan(<<"basic", "-", "trial", "-", "monthly">>, <<"TRIAL">>)
EnterpriseAnnual == KbPlan(<<"Enterprise", "-", "Annual">>, <<"EVERGREEN">>)
CustomMonthly == KbPlan(<<"custom", "-", "monthly">>, <<"EVERGREEN">>)
PartnerMonthly == KbPlan(<<"partner", "-", "Monthly">>, <<"EVERGREEN">>)
LegacyMonthly == KbPlan(<<"legacy", "-", "monthly">>, <<"EVERGREEN">>)

\* the current catalog version
CatalogCurrent ==
    [products |->
        << KbProduct("Basic", "Basic Plan", <<BasicMonthly, BasicAnnual, BasicTrial>>),
           KbProduct("Enterprise", Missing, <<EnterpriseAnnual>>),
           KbProduct("Partner", Missing, <<CustomMonthly, PartnerMonthly>>) >>,
     priceLists |->
        << [name |-> "SPECIAL", plans |-> {CustomMonthly.name}],
           [name |-> "DEFAULT",
            plans |-> {BasicMonthly.name, BasicAnnual.name, BasicTrial.name,
                       EnterpriseAnnual.name, PartnerMonthly.name}] >>]

\* an earlier catalog version
CatalogLegacy ==
    [products |-> << KbProduct("Basic", Missing, <<LegacyMonthly>>) >>,
     priceLists |-> << [name |-> "DEFAULT", plans |-> {LegacyMonthly.name}] >>]

\* a version without a price list named DEFAULT
CatalogNoDefault ==
    [products |-> << KbProduct("Basic", Missing, <<BasicMonthly>>) >>,
     priceLists |-> << [name |-> "default", plans |-> {BasicMonthly.name}] >>]

\* a version with yearly plans only
CatalogAnnualOnly ==
    [products |-> << KbProduct("Enterprise", "Enterprise Plan", <<EnterpriseAnnual>>) >>,
     priceLists |-> << [name |-> "DEFAULT", plans |-> {EnterpriseAnnual.name}] >>]

\* arrays of catalog versions the billing engine answers with
CatalogArrays ==
    { <<>>,
      <<CatalogCurrent>>,
      <<CatalogLegacy, CatalogCurrent>>,
      <<CatalogCurrent, CatalogLegacy>>,
      <<CatalogNoDefault>>,
      <<CatalogAnnualOnly>> }

\* plans/index.ts 44-52 and 114: PRODUCT_TIER_MAPPING[product.name] || "basic"
PRODUCT_TIER_MAPPING(name) ==
    CASE name = "Free" -> "free"
      [] name = "Basic" -> "basic"
      [] name = "Premium" -> "premium"
      [] name = "Enterprise" -> "enterprise"
      [] OTHER -> "basic"

\* plans/index.ts 102-105
evergreenPhase(plan) == \E i \in 1..Len(plan.phases) : plan.phases[i] = "EVERGREEN"

\* plans/index.ts 108-111: the first price list named DEFAULT includes the plan
inDefaultPriceList(catalog, plan) ==
    LET named == {i \in 1..Len(catalog.priceLists) :
                    catalog.priceLists[i].name = "DEFAULT"}
    IN /\ named # {}
       /\ plan.name \in
            catalog.priceLists[CHOOSE i \in named : \A j \in named : i <= j].plans

\* variant: every plan is selectable
transformedPlan_AlwaysSelectable(product, plan) ==
    LET tier == PRODUCT_TIER_MAPPING(product.name)
    IN [id |-> plan.name, name |-> OrElse(product.prettyName, product.name),
        tier |-> tier, selectable |-> TRUE, contactUs |-> tier = "enterprise"]

\* plans/index.ts 114 and 138-154; contactUs is TRUE when the block is present
transformedPlan(product, plan) ==
    LET tier == PRODUCT_TIER_MAPPING(product.name)
    IN [id |-> plan.name, name |-> OrElse(product.prettyName, product.name),
        tier |-> tier, selectable |-> tier # "enterprise",
        contactUs |-> tier = "enterprise"]

\* plans/index.ts 100-157: the plans of one product, in order
RECURSIVE plansOfProduct(_, _, _)
\* variant: no plan is skipped
plansOfProduct_KeepsAll(catalog, product, ps) ==
    [i \in 1..Len(ps) |-> transformedPlan(product, ps[i])]

plansOfProduct(catalog, product, ps) ==
    IF ps = <<>> THEN <<>>
    ELSE (IF evergreenPhase(Head(ps)) /\ inDefaultPriceList(catalog, Head(ps))
            THEN <<transformedPlan(product, Head(ps))>> ELSE <<>>)
         \o plansOfProduct(catalog, product, Tail(ps))

\* plans/index.ts 99-158: the plans of all products, in order
RECURSIVE plansOfCatalog(_, _)
plansOfCatalog(catalog, products) ==
    IF products = <<>> THEN <<>>
    ELSE plansOfProduct(catalog, Head(products), Head(products).plans)
         \o plansOfCatalog(catalog, Tail(products))

\* answers of the billing engine to the catalog fetch; fetch may reject with
\* an Error (neterr) or with a value that is no Error (rejected)
CatalogAnswers ==
    [kind : {"ok"}, status : {200}, versions : CatalogArrays]
    \cup [kind : {"non2xx"}, status : {404, 500}, versions : {<<>>}]
    \cup [kind : {"badjson"}, status : {200}, versions : {<<>>}]
    \cup [kind : {"neterr", "rejected"}, status : {0}, versions : {<<>>}]

\* variant: an answer that is not a catalog array counts as no plans
fetchKillBillPlans_NoThrow(ans) ==
    IF ans.kind # "ok" \/ ans.versions = <<>> THEN [thrown |-> FALSE, plans |-> <<>>]
    ELSE LET catalog == ans.versions[Len(ans.versions)]
         IN [thrown |-> FALSE, plans |-> plansOfCatalog(catalog, catalog.products)]

\* variant: an empty array of versions gives an empty list of plans
fetchKillBillPlans_EmptyIsNoPlans(ans) ==
    IF ans.kind # "ok" THEN [thrown |-> TRUE, plans |-> <<>>]
    ELSE IF ans.versions = <<>> THEN [thrown |-> FALSE, plans |-> <<>>]
    ELSE LET catalog == ans.versions[Len(ans.versions)]
         IN [thrown |-> FALSE, plans |-> plansOfCatalog(catalog, catalog.products)]

\* variant: the plans are those of the first version
fetchKillBillPlans_FirstVersion(ans) ==
    IF ans.kind # "ok" THEN [thrown |-> TRUE, plans |-> <<>>]
    ELSE IF ans.versions = <<>> THEN [thrown |-> TRUE, plans |-> <<>>]
    ELSE LET catalog == ans.versions[1]
         IN [thrown |-> FALSE, plans |-> plansOfCatalog(catalog, catalog.products)]

\* plans/index.ts 54-170: fetchKillBillPlans from the answer of its fetch
fetchKillBillPlans(ans) ==
    IF ans.kind # "ok" THEN [thrown |-> TRUE, plans |-> <<>>]
    ELSE IF ans.versions = <<>> THEN [thrown |-> TRUE, plans |-> <<>>]
    ELSE LET catalog == ans.versions[Len(ans.versions)]
         IN [thrown |-> FALSE, plans |-> plansOfCatalog(catalog, catalog.products)]

Lower(tok) ==
    CASE tok = "Annual" -> "annual"
      [] tok = "Monthly" -> "monthly"
      [] tok = "Enterprise" -> "enterprise"
      [] tok = "FALSE" -> "false"
      [] tok = "True" -> "true"
      [] OTHER -> tok

\* plan.id.toLowerCase().includes(word)
idIncludes(id, word) == \E i \in 1..Len(id) : Lower(id[i]) = word

\* variant: the interval does not filter
filteredPlans_Unfiltered(interval, plans) == plans

\* plans/index.ts 192-198
filteredPlans(interval, plans) ==
    IF Falsy(interval) THEN plans
    ELSE SelectSeq(plans, LAMBDA p :
            IF interval = "year" THEN idIncludes(p.id, "annual")
            ELSE idIncludes(p.id, "monthly"))

Intervals == {Missing, "", "month", "year", "weekly", "Month"}

\* variant: the interval is not checked before the catalog fetch
intervalRejected_Never(interval) == FALSE

\* plans/index.ts 179-187: the interval is given and is neither month nor year
intervalRejected(interval) == ~Falsy(interval) /\ interval \notin {"month", "year"}

\* plans/index.ts 172-189: handlePlans up to the catalog fetch; reading the
\* query may throw, which the outer catch answers
PlansStart ==
    \E queryFails \in BOOLEAN, iv \in Intervals :
        /\ queryFails => iv = Missing
        /\ AuthBegin("plans", [NoInput EXCEPT !.interval = iv])
        /\ IF queryFails
             THEN AuthFinish(AuthError(500, "INTERNAL_ERROR", "Failed to fetch plans"))
                  /\ UNCHANGED aCalls
           ELSE IF intervalRejected(iv)
             THEN AuthFinish(AuthError(400, "INVALID_INTERVAL",
                                       "Interval must be 'month' or 'year'"))
                  /\ UNCHANGED aCalls
           ELSE AuthFetch
        /\ UNCHANGED <<subVars, corsOut, aAns, nextCalled, ctxUser, catalogs, plansOut>>

\* plans/index.ts 189-226: handlePlans from the answer of the catalog fetch
PlansReturn ==
    /\ aPc = "fetch" /\ aEndpoint = "plans"
    /\ \E ans \in CatalogAnswers :
        LET fetched == fetchKillBillPlans(ans)
            filtered == filteredPlans(aIn.interval, fetched.plans)
        IN /\ aAns' = [NoAnswer EXCEPT !.kind = ans.kind, !.status = ans.status]
           /\ catalogs' = ans.versions
           /\ IF fetched.thrown
                THEN /\ AuthFinish(AuthError(503, "KILLBILL_UNAVAILABLE",
                                    "Kill Bill service is currently unavailable"))
                     /\ UNCHANGED plansOut
              ELSE IF filtered = <<>>
                THEN /\ AuthFinish(AuthError(404, "NO_PLANS_AVAILABLE",
                                    "No plans available for the specified interval"))
                     /\ UNCHANGED plansOut
              ELSE /\ AuthFinish([NoAuthResp EXCEPT !.status = 200])
                   /\ plansOut' = filtered
    /\ UNCHANGED <<subVars, corsOut, aEndpoint, aIn, aCalls, nextCalled, ctxUser>>

\* ------------------------------------------------------------------ corsMiddleware
\* values of CORS_ENABLED
CorsEnabledEnvs == {Missing, "true", "True", "false", "FALSE", "0"}

\* values of CORS_ORIGIN as token sequences ("," separates, " " is white
\* space); the empty sequence is an unset or empty variable
CorsOriginEnvs ==
    { <<>>,
      <<"*">>,
      <<"https://app.example">>,
      <<"https://app.example", ",", " ", "https://staging.example", " ", ",",
        "https://local.example">>,
      <<"https://app.example", ",", "*">> }

\* Origin headers of a request
OriginHeaders ==
    {Missing, "https://app.example", "https://staging.example",
     "https://local.example", "https://evil.example", "https://APP.example",
     "https://app.example.evil.example"}

Methods == {"OPTIONS", "GET", "POST"}

\* statuses of the response the next handler produces
NextStatuses == {200, 404, 500}

\* part_011 19-27: getCorsConfig
getCorsConfig(enabledEnv, originEnv) ==
    [enabled |-> IF enabledEnv = Missing THEN TRUE ELSE Lower(enabledEnv) # "false",
     origin |-> IF originEnv = <<>> THEN <<"*">> ELSE originEnv]

\* String.split(",") on a token sequence
RECURSIVE splitComma(_)
splitComma(toks) ==
    LET commas == {i \in 1..Len(toks) : toks[i] = ","}
    IN IF commas = {} THEN <<toks>>
       ELSE LET i == CHOOSE c \in commas : \A d \in commas : c <= d
            IN <<SubSeq(toks, 1, i - 1)>> \o splitComma(SubSeq(toks, i + 1, Len(toks)))

\* String.trim() on a token sequence
RECURSIVE trim(_)
trim(toks) ==
    IF toks = <<>> THEN <<>>
    ELSE IF Head(toks) = " " THEN trim(Tail(toks))
    ELSE IF toks[Len(toks)] = " " THEN trim(SubSeq(toks, 1, Len(toks) - 1))
    ELSE toks

\* the string of a trimmed entry: an entry of the model is one token
entryString(toks) == IF toks = <<>> THEN "" ELSE toks[1]

\* part_011 51: configuredOrigin.split(",").map((o) => o.trim())
allowedOrigins(configuredOrigin) ==
    LET entries == splitComma(configuredOrigin)
    IN {entryString(trim(entries[i])) : i \in 1..Len(entries)}

\* variant: the request's Origin is echoed whatever the list holds
getAllowedOrigin_EchoesOrigin(requestOrigin, configuredOrigin) ==
    IF configuredOrigin = <<"*">> THEN "*"
    ELSE IF Falsy(requestOrigin) THEN NULL
    ELSE requestOrigin

\* part_011 36-59: getAllowedOrigin
getAllowedOrigin(requestOrigin, configuredOrigin) ==
    IF configuredOrigin = <<"*">> THEN "*"
    ELSE IF Falsy(requestOrigin) THEN NULL
    ELSE IF requestOrigin \in allowedOrigins(configuredOrigin) THEN requestOrigin
    ELSE NULL

\* cors.ts 27-37 and 49-59: the headers set for an allowed origin
corsHeadersFor(allowedOrigin, preflight) ==
    IF Falsy(allowedOrigin) THEN NoCorsHeaders
    ELSE [allowOrigin |-> allowedOrigin,
          allowHeaders |-> "authorization, x-client-info, apikey, content-type",
          allowMethods |-> "GET,POST,PUT,DELETE",
          maxAge |-> IF preflight THEN "86400" ELSE Missing]

\* cors.ts 12-43: corsMiddleware up to its response to a preflight request or
\* to its call of the next handler
CorsStart ==
    \E en \in CorsEnabledEnvs, co \in CorsOriginEnvs, m \in Methods,
       oh \in OriginHeaders :
        LET in == [NoInput EXCEPT !.corsEnabled = en, !.corsOrigin = co,
                                  !.method = m, !.originHeader = oh]
            config == getCorsConfig(en, co)
        IN /\ AuthBegin("cors", in)
           /\ IF config.enabled /\ m = "OPTIONS"
                THEN /\ corsOut' = corsHeadersFor(
                                      getAllowedOrigin(oh, config.origin), TRUE)
                     /\ AuthFinish([NoAuthResp EXCEPT !.status = 204])
                     /\ UNCHANGED nextCalled
                ELSE /\ nextCalled' = TRUE
                     /\ aPc' = "next"
                     /\ UNCHANGED <<aResp, corsOut>>
           /\ UNCHANGED <<subVars, aCalls, aAns, ctxUser, catalogs, plansOut>>

\* cors.ts 16-19 and 43-60: the next handler has produced its response (it
\* sets no CORS header itself); corsMiddleware returns
CorsReturn ==
    /\ aPc = "next" /\ aEndpoint = "cors"
    /\ \E s \in NextStatuses :
        LET config == getCorsConfig(aIn.corsEnabled, aIn.corsOrigin)
        IN /\ AuthFinish([NoAuthResp EXCEPT !.status = s])
           /\ corsOut' = IF config.enabled
                            THEN corsHeadersFor(
                                   getAllowedOrigin(aIn.originHeader, config.origin),
                                   FALSE)
                            ELSE corsOut
    /\ UNCHANGED <<subVars, aEndpoint, aIn, aCalls, aAns, nextCalled, ctxUser,
                   catalogs, plansOut>>

\* ------------------------------------------------------------------ 404 catch-all
\* part_001 28-37: app.notFound
NotFound ==
    /\ AuthBegin("notFound", NoInput)
    /\ AuthFinish(AuthError(404, "NOT_FOUND", "Not Found"))
    /\ UNCHANGED <<subVars, corsOut, aCalls, aAns, nextCalled, ctxUser, catalogs, plansOut>>

\* concurrent POST /subscriptions requests against one billing engine
Next == \E r \in Reqs : handleCreateSubscription(r)

Spec == Init /\ [][Next]_vars

\* no request has been received yet
ApiIdle == aPc = "idle" /\ pc[1] = "idle"

\* one request, on any endpoint
NextApi ==
    \/ ApiIdle /\ HandleStart(1)
    \/ LookupReturn(1)
    \/ CreateAccountReturn(1)
    \/ RefetchReturn(1)
    \/ BundlesReturn(1)
    \/ CreateSubReturn(1)
    \/ ApiIdle /\ AuthorizeStart
    \/ AuthorizeReturn
    \/ ApiIdle /\ ExchangeStart
    \/ ExchangeReturn
    \/ ApiIdle /\ RefreshStart
    \/ RefreshReturn
    \/ ApiIdle /\ LogoutStart
    \/ ApiIdle /\ MeStart
    \/ LogoutReturn
    \/ ApiIdle /\ MiddlewareStart
    \/ MiddlewareReturn
    \/ ApiIdle /\ NotFound
    \/ ApiIdle /\ PlansStart
    \/ PlansReturn
    \/ ApiIdle /\ CorsStart
    \/ CorsReturn

SpecApi == Init /\ [][NextApi]_vars

\* ------------------------------------------------------------------ properties
Issued(r, call) == \E i \in 1..Len(calls[r]) : calls[r][i] = call

\* how the call was answered ("none": not issued, or not answered yet)
OutcomeOf(r, call) ==
    LET idx == {i \in 1..Len(outs[r]) : calls[r][i] = call}
    IN IF idx = {} THEN "none" ELSE outs[r][CHOOSE i \in idx : TRUE]

HoldsActive(bs) ==
    \E i \in 1..Len(bs) : \E j \in 1..Len(bs[i]) :
        bs[i][j].state = "ACTIVE" /\ bs[i][j].cancelledDate = NULL

AllInactive(bs) ==
    \A i \in 1..Len(bs) : \A j \in 1..Len(bs[i]) :
        bs[i][j].cancelledDate # NULL \/ bs[i][j].state # "ACTIVE"

LookupFailed(r) == OutcomeOf(r, "lookup") \in {"badjson", "non2xx", "neterr"}

CheckFailed(r) == OutcomeOf(r, "bundles") \in {"badjson", "non2xx", "neterr"}

\* C1: when the bundles fetch succeeds and some subscription of some returned
\* bundle is ACTIVE with a null cancelledDate, the request ends with 409
\* ALREADY_SUBSCRIBED and the bundles fetch is the last call it issues.
C1_ConflictAborts ==
    \A r \in Reqs :
        (OutcomeOf(r, "bundles") = "ok" /\ HoldsActive(chk[r])) =>
            /\ pc[r] = "done"
            /\ resp[r] = ErrorJson(409, "ALREADY_SUBSCRIBED")
            /\ calls[r][Len(calls[r])] = "bundles"
            /\ ~Issued(r, "createSub")

C1_Witness ==
    \E r \in Reqs :
        /\ OutcomeOf(r, "bundles") = "ok"
        /\ Len(chk[r]) > 1 /\ ~HoldsActive(<<chk[r][1]>>) /\ HoldsActive(chk[r])
        /\ resp[r].status = 409

\* C2 as stated: a request handled while the account holds an ACTIVE
\* subscription with a null cancelledDate never issues the create-subscription
\* call, whatever the answers to its calls.
C2_NeverCreatesWhileActive ==
    \A r \in Reqs : activeAtCheck[r] => ~Issued(r, "createSub")

\* C2 amended: a request whose bundles fetch succeeds while the account holds
\* an ACTIVE subscription with a null cancelledDate never issues the
\* create-subscription call.
C2_NoCreateWhenCheckSucceeds ==
    \A r \in Reqs :
        (activeAtCheck[r] /\ OutcomeOf(r, "bundles") = "ok") =>
            /\ ~Issued(r, "createSub")
            /\ pc[r] = "done" /\ resp[r].status = 409

C2_Witness ==
    \E r \in Reqs :
        activeAtCheck[r] /\ OutcomeOf(r, "bundles") = "ok" /\ pc[r] = "done"

\* C3 as stated: the account-creation call is issued only when no account
\* with the user's external key exists yet.
C3_CreatesOnlyWhenAbsent ==
    \A r \in Reqs : Issued(r, "createAccount") => ~existedAtCreate[r]

\* C3 amended: a request issues the account-creation call at most once and
\* only after its own lookup returned no account; a request whose lookup
\* returned the account issues no creation call and uses that account.
C3_CreatesOnlyAfterFailedLookup ==
    \A r \in Reqs :
        /\ Cardinality({i \in 1..Len(calls[r]) : calls[r][i] = "createAccount"}) <= 1
        /\ Issued(r, "createAccount") => LookupFailed(r)
        /\ OutcomeOf(r, "lookup") = "ok" =>
              ~Issued(r, "createAccount") /\ acct[r] = user[r]

C3_Witness ==
    \E r \in Reqs :
        /\ OutcomeOf(r, "lookup") = "neterr"
        /\ existedAtCreate[r]
        /\ Issued(r, "createAccount")
        /\ pc[r] = "done"

\* C4: when the bundles fetch succeeds and every returned subscription has a
\* cancelledDate or a state other than ACTIVE (or there is none), the
\* create-subscription call is issued, and the response is 201 when it succeeds.
C4_NoConflictProceeds ==
    \A r \in Reqs :
        (OutcomeOf(r, "bundles") = "ok" /\ AllInactive(chk[r])) =>
            /\ Issued(r, "createSub")
            /\ OutcomeOf(r, "createSub") = "ok" => resp[r].status = 201

C4_Witness ==
    \E r \in Reqs :
        /\ OutcomeOf(r, "bundles") = "ok"
        /\ AllInactive(chk[r])
        /\ \E i \in 1..Len(chk[r]) : \E j \in 1..Len(chk[r][i]) :
              chk[r][i][j] = SubActiveEnding
        /\ resp[r].status = 201

\* C5: after a lookup that returned no account, a non-2xx answer to the
\* account creation, a 2xx answer without Location, or a non-2xx answer to the
\* re-fetch ends the request with 500 INTERNAL_ERROR, and neither the bundles
\* fetch nor the create-subscription call is issued.
C5_AccountFailureIsFatal ==
    \A r \in Reqs :
        (/\ LookupFailed(r)
         /\ \/ OutcomeOf(r, "createAccount") \in {"non2xx", "okNoLocation"}
            \/ OutcomeOf(r, "refetch") = "non2xx") =>
            /\ pc[r] = "done"
            /\ resp[r] = ErrorJson(500, "INTERNAL_ERROR")
            /\ ~Issued(r, "bundles")
            /\ ~Issued(r, "createSub")

C5_Witness ==
    \E r \in Reqs :
        /\ LookupFailed(r)
        /\ OutcomeOf(r, "createAccount") = "okNoLocation"
        /\ resp[r].status = 500

\* C6: a failed bundles fetch (network error, exception, non-2xx) never fails
\* the request: the create-subscription call is issued, and the response is
\* 201 when it succeeds.
C6_CheckFailureAbsorbed ==
    \A r \in Reqs :
        CheckFailed(r) =>
            /\ Issued(r, "createSub")
            /\ resp[r].code \notin {"INTERNAL_ERROR", "ALREADY_SUBSCRIBED"}
            /\ OutcomeOf(r, "createSub") = "ok" => resp[r].status = 201

C6_Witness ==
    \E r \in Reqs :
        /\ OutcomeOf(r, "bundles") = "neterr"
        /\ activeAtCheck[r]
        /\ resp[r].status = 201

\* C7: a non-2xx answer to the create-subscription call yields 500
\* SUBSCRIPTION_CREATION_FAILED, with no Location header.
C7_CreationFailureCode ==
    \A r \in Reqs :
        OutcomeOf(r, "createSub") = "non2xx" =>
            /\ pc[r] = "done"
            /\ resp[r].status = 500
            /\ resp[r].code = "SUBSCRIPTION_CREATION_FAILED"
            /\ resp[r].location = <<>>

C7_Witness ==
    \E r \in Reqs : OutcomeOf(r, "createSub") = "non2xx" /\ resp[r].status = 500

\* the part of a "/"-separated value after its last "/"
TrailingSegment(v) ==
    LET slashes == {i \in 1..Len(v) : v[i] = "/"}
        last == IF slashes = {} THEN 0
                ELSE CHOOSE i \in slashes : \A j \in slashes : j <= i
    IN SubSeq(v, last + 1, Len(v))

C9_NoUserIsInternalError ==
    \A r \in Reqs :
        (pc[r] # "idle" /\ user[r] = NoUser) =>
            /\ pc[r] = "done"
            /\ resp[r] = ErrorJson(500, "INTERNAL_ERROR")
            /\ calls[r] = <<>>

C9_Witness ==
    \E r \in Reqs :
        /\ user[r] = NoUser
        /\ body[r] = [kind |-> "object", planId |-> Missing]
        /\ resp[r].status = 500

\* the required fields of each auth endpoint, in the order the handler checks
\* them, each with its MISSING code
RequiredFields(endpoint) ==
    IF endpoint = "authorize"
      THEN << <<"redirect_to", "MISSING_REDIRECT_TO">>,
              <<"code_challenge", "MISSING_CODE_CHALLENGE">> >>
    ELSE IF endpoint = "exchange-token"
      THEN << <<"auth_code", "MISSING_AUTH_CODE">>,
              <<"code_verifier", "MISSING_CODE_VERIFIER">> >>
    ELSE IF endpoint = "refresh-token"
      THEN << <<"refresh_token", "MISSING_REFRESH_TOKEN">> >>
    ELSE IF endpoint \in {"logout", "me"}
      THEN << <<"authorization", "MISSING_AUTHORIZATION">> >>
    ELSE <<>>

IsMissing(x) == x \in {Missing, ""}

\* indexes of the required fields the invocation lacks
MissingFields ==
    {i \in 1..Len(RequiredFields(aEndpoint)) :
        IsMissing(aIn[RequiredFields(aEndpoint)[i][1]])}

MissingStatus(code) == IF code = "MISSING_AUTHORIZATION" THEN 401 ELSE 400

PlanIdMissing(r) == pc[r] # "idle" /\ IsMissing(body[r].planId)

\* C10 as stated: a request that lacks a required field is answered with the
\* MISSING code of a field it lacks, with 400 (401 for Authorization), and
\* issues no downstream call.
C10_MissingFieldAlwaysReported ==
    /\ (aPc # "idle" /\ MissingFields # {}) =>
          /\ aPc = "done"
          /\ \E i \in MissingFields : aResp.code = RequiredFields(aEndpoint)[i][2]
          /\ aResp.status = MissingStatus(aResp.code)
          /\ aCalls = 0
    /\ \A r \in Reqs :
          PlanIdMissing(r) =>
              /\ pc[r] = "done"
              /\ resp[r] = ErrorJson(400, "MISSING_PLAN_ID")
              /\ calls[r] = <<>>

\* C10 amended: no request that lacks a required field issues a downstream
\* call. When the body of a body-carrying endpoint is a JSON object (and, for
\* subscriptions, the context holds a user), the answer is the MISSING code of
\* the first lacking field in validation order, with 400 (401 for
\* Authorization); otherwise it is 500 INTERNAL_ERROR.
C10_MissingFieldReportedForObjectBody ==
    /\ (aPc # "idle" /\ MissingFields # {}) =>
          /\ aPc = "done"
          /\ aCalls = 0
          /\ IF aIn.bodyKind \in {"badjson", "null"}
               THEN aResp.status = 500 /\ aResp.code = "INTERNAL_ERROR"
               ELSE LET first == CHOOSE i \in MissingFields :
                                    \A j \in MissingFields : i <= j
                    IN /\ aResp.code = RequiredFields(aEndpoint)[first][2]
                       /\ aResp.status = MissingStatus(aResp.code)
    /\ \A r \in Reqs :
          PlanIdMissing(r) =>
              /\ pc[r] = "done"
              /\ calls[r] = <<>>
              /\ IF user[r] # NoUser /\ body[r].kind = "object"
                   THEN resp[r] = ErrorJson(400, "MISSING_PLAN_ID")
                   ELSE resp[r] = ErrorJson(500, "INTERNAL_ERROR")

C10_Witness ==
    /\ aPc = "done"
    /\ aEndpoint = "exchange-token"
    /\ aIn.bodyKind = "object"
    /\ IsMissing(aIn.auth_code) /\ IsMissing(aIn.code_verifier) /\ IsMissing(aIn.apikey)
    /\ aResp.status = 400

\* C11: an authorize request whose redirect_to and code_challenge are both
\* present and whose redirect_to is not a valid absolute URL is answered with
\* 400 INVALID_REDIRECT_TO and issues no identity-provider call; and
\* INVALID_REDIRECT_TO is answered only when neither field is missing.
C11_InvalidRedirectTo ==
    (aPc # "idle" /\ aEndpoint = "authorize") =>
        /\ (/\ ~Falsy(aIn.redirect_to)
            /\ ~Falsy(aIn.code_challenge)
            /\ ~IsAbsoluteUrl(aIn.redirect_to)) =>
              /\ aPc = "done"
              /\ aResp = AuthError(400, "INVALID_REDIRECT_TO",
                                   "redirect_to must be a valid URL")
              /\ aCalls = 0
        /\ aResp.code = "INVALID_REDIRECT_TO" =>
              ~Falsy(aIn.redirect_to) /\ ~Falsy(aIn.code_challenge)

C11_Witness ==
    /\ aPc = "done" /\ aEndpoint = "authorize"
    /\ aIn.redirect_to = "not-a-url" /\ aIn.code_challenge = "abc"
    /\ aResp.code = "INVALID_REDIRECT_TO"

KeyedEndpoints == {"exchange-token", "refresh-token", "logout", "me"}

\* the invocation carries every required request field but no API key
FieldsPresentKeyAbsent ==
    /\ aPc # "idle"
    /\ aEndpoint \in KeyedEndpoints
    /\ MissingFields = {}
    /\ Falsy(aIn.apikey)

\* C12 as stated: with every required request field present and the API key
\* absent from configuration, exchange-token, refresh-token, logout and me
\* answer 500 MISSING_API_KEY and issue no identity-provider call.
C12_MissingKeyAlwaysReported ==
    FieldsPresentKeyAbsent =>
        aPc = "done" /\ aResp = MissingApiKey /\ aCalls = 0

\* C12 amended: with every required request field present and the API key
\* absent, no identity-provider call is issued; the answer is 500
\* MISSING_API_KEY when the configured base URL is absent or a valid URL, and
\* 500 INTERNAL_ERROR when it is set to a value that is not a valid URL.
C12_MissingKeyReportedForValidBase ==
    FieldsPresentKeyAbsent =>
        /\ aPc = "done"
        /\ aCalls = 0
        /\ aResp = IF BaseResolves(aIn.baseUrl) THEN MissingApiKey ELSE InternalError

C12_Witness ==
    /\ aPc = "done" /\ aEndpoint = "me"
    /\ ~Falsy(aIn.authorization) /\ Falsy(aIn.apikey)
    /\ aResp.code = "MISSING_API_KEY" /\ aResp.status = 500

\* C13: an authorize request that passed validation issues one call and its
\* response follows from the answer: 302 with Location gives a 302 redirect
\* to that Location; 302 without Location gives 500 NO_REDIRECT_LOCATION; a
\* status that is neither 2xx nor 302 gives SUPABASE_OAUTH_ERROR with the
\* downstream status as the response status.
C13_AuthorizeTranslation ==
    (aEndpoint = "authorize" /\ aAns.kind = "resp") =>
        /\ aPc = "done"
        /\ aCalls = 1
        /\ (aAns.status = 302 /\ aAns.location # Missing) =>
              /\ aResp.status = 302
              /\ aResp.location = aAns.location
              /\ aResp.code = ""
        /\ (aAns.status = 302 /\ aAns.location = Missing) =>
              aResp = AuthError(500, "NO_REDIRECT_LOCATION", "No redirect location found")
        /\ (~IsOk(aAns.status) /\ aAns.status # 302) =>
              /\ aResp.code = "SUPABASE_OAUTH_ERROR"
              /\ aResp.status = aAns.status

C13_Witness ==
    /\ aEndpoint = "authorize" /\ aAns.kind = "resp"
    /\ aAns.status = 401 /\ aAns.location # Missing
    /\ aResp.status = 401

\* the identity provider answered a token, logout or user call with a failure
\* that carries a JSON object
FailureAnswered ==
    /\ aEndpoint \in KeyedEndpoints
    /\ aAns.kind = "resp"
    /\ ~IsOk(aAns.status)
    /\ aAns.data.kind = "object"

\* the status the downstream answer supplies: the code of its body, else its
\* HTTP status, else 500
DownstreamStatus ==
    IF aAns.data.code # 0 THEN aAns.data.code
    ELSE IF aAns.status # 0 THEN aAns.status
    ELSE 500

\* C14: on a failure answer of the identity provider, exchange-token,
\* refresh-token, logout and me answer with code error_code (else
\* SUPABASE_ERROR), message error_description (else msg, else "Error from
\* Supabase") and the status the downstream answer supplies (else 500).
C14_FailureTranslation ==
    FailureAnswered =>
        /\ aPc = "done"
        /\ aResp.code = OrElse(aAns.data.error_code, "SUPABASE_ERROR")
        /\ aResp.message =
              OrElse(aAns.data.error_description,
                     OrElse(aAns.data.msg, "Error from Supabase"))
        /\ aResp.status = DownstreamStatus

\* the same for the endpoints other than refresh-token
C14_HoldsExceptRefresh ==
    (FailureAnswered /\ aEndpoint # "refresh-token") =>
        /\ aResp.code = OrElse(aAns.data.error_code, "SUPABASE_ERROR")
        /\ aResp.message =
              OrElse(aAns.data.error_description,
                     OrElse(aAns.data.msg, "Error from Supabase"))
        /\ aResp.status = DownstreamStatus

\* the identity provider answered a token or user call with a 2xx status and
\* a JSON object
SuccessAnswered ==
    /\ aEndpoint \in {"exchange-token", "refresh-token", "me"}
    /\ aAns.kind = "resp"
    /\ IsOk(aAns.status)
    /\ aAns.data.kind = "object"

\* C15 as stated: on a 2xx answer exchange-token, refresh-token and me return
\* the downstream JSON body unmodified, with the downstream status code.
C15_SuccessKeepsDownstreamStatus ==
    SuccessAnswered =>
        /\ aPc = "done"
        /\ aResp.data = aAns.data
        /\ aResp.status = aAns.status

\* C15 amended: on a 2xx answer carrying a JSON object exchange-token,
\* refresh-token and me return that object unmodified, with status 200
\* whatever the downstream 2xx code.
C15_SuccessPassesBodyWith200 ==
    SuccessAnswered =>
        /\ aPc = "done"
        /\ aResp.data = aAns.data
        /\ aResp.code = "" /\ aResp.message = ""
        /\ aResp.status = 200

C15_Witness ==
    /\ aEndpoint = "exchange-token" /\ aPc = "done"
    /\ aAns.kind = "resp" /\ aAns.status = 201
    /\ aAns.data.kind = "object" /\ aAns.data.msg = "invalid"
    /\ aResp.status = 200 /\ aResp.data = aAns.data

\* C16: on a 2xx answer logout responds 204 with no body, whatever the
\* downstream body (parsable or not) and whatever the 2xx code.
C16_LogoutNoContent ==
    (aEndpoint = "logout" /\ aAns.kind = "resp" /\ IsOk(aAns.status)) =>
        /\ aPc = "done"
        /\ aResp.status = 204
        /\ aResp.data = NoData
        /\ aResp.code = "" /\ aResp.message = ""

C16_Witness ==
    /\ aEndpoint = "logout" /\ aPc = "done"
    /\ aAns.kind = "resp" /\ aAns.status = 201 /\ aAns.data.kind = "badjson"
    /\ aResp.status = 204

AuthEndpoints == {"authorize", "exchange-token", "refresh-token", "logout", "me"}

\* the request body does not parse, or parses to null (destructuring throws)
BodyRaised ==
    aEndpoint \in {"exchange-token", "refresh-token"} /\ aIn.bodyKind # "object"

\* the inputs pass the field checks and the downstream URL cannot be built
UrlRaised ==
    /\ ~BodyRaised
    /\ MissingFields = {}
    /\ aEndpoint = "authorize" => IsAbsoluteUrl(aIn.redirect_to)
    /\ ~BaseResolves(aIn.baseUrl)

\* the fetch rejected
FetchRaised == aAns.kind = "neterr"

\* the downstream body is parsed and does not parse, or is read and is null
ParseRaised ==
    /\ aAns.kind = "resp"
    /\ aAns.data.kind # "object"
    /\ \/ aEndpoint \in {"exchange-token", "me"}
       \/ aEndpoint = "refresh-token" /\ (aAns.data.kind = "badjson" \/ ~IsOk(aAns.status))
       \/ aEndpoint = "logout" /\ ~IsOk(aAns.status)

\* C17: in every auth endpoint an exception raised while the request is
\* handled (request body, URL construction, fetch, downstream body) ends the
\* invocation with 500 INTERNAL_ERROR "Internal server error"; every finished
\* invocation has a response.
C17_ExceptionsBecomeInternalError ==
    (aPc # "idle" /\ aEndpoint \in AuthEndpoints) =>
        /\ (BodyRaised \/ UrlRaised \/ FetchRaised \/ ParseRaised) =>
              /\ aPc = "done"
              /\ aResp = AuthError(500, "INTERNAL_ERROR", "Internal server error")
        /\ aPc = "done" => aResp.status \in 200..599

C17_Witness ==
    /\ aEndpoint = "me" /\ aPc = "done"
    /\ aAns.kind = "resp" /\ aAns.status = 200 /\ aAns.data.kind = "badjson"
    /\ aResp.code = "INTERNAL_ERROR"

\* a JSON body with a string code and a string message
IsErrorResponse(code, message) ==
    /\ code \in STRING /\ code \notin {"", Missing, NULL}
    /\ message \in STRING /\ message \notin {"", Missing, NULL}

\* the request on an auth endpoint, /plans, the middleware or an unknown
\* route has been responded to
Responded == aPc = "done" /\ ~nextCalled

\* C18 as stated: every response with a non-2xx status has an ErrorResponse
\* body.
C18_Non2xxIsErrorResponse ==
    /\ (Responded /\ ~IsOk(aResp.status)) =>
          IsErrorResponse(aResp.code, aResp.message) /\ aResp.location = Missing
    /\ \A r \in Reqs :
          (pc[r] = "done" /\ ~IsOk(resp[r].status)) =>
              resp[r].body = "error" /\ IsErrorResponse(resp[r].code, resp[r].message)

\* the 302 of authorize: a redirect to the downstream Location, without a body
IsRedirect ==
    /\ aEndpoint = "authorize"
    /\ aResp.status = 302 /\ aResp.code = "" /\ aResp.location # Missing

\* C18 amended: every response with a non-2xx status other than the redirect
\* of authorize has an ErrorResponse body; in particular every response with
\* a 4xx or 5xx status has one.
C18_ErrorStatusIsErrorResponse ==
    /\ (Responded /\ ~IsOk(aResp.status) /\ ~IsRedirect) =>
          IsErrorResponse(aResp.code, aResp.message) /\ aResp.location = Missing
    /\ (Responded /\ aResp.status >= 400) => ~IsRedirect
    /\ \A r \in Reqs :
          (pc[r] = "done" /\ ~IsOk(resp[r].status)) =>
              resp[r].body = "error" /\ IsErrorResponse(resp[r].code, resp[r].message)

C18_Witness ==
    /\ Responded /\ aEndpoint = "me"
    /\ aAns.kind = "resp" /\ aAns.status = 401
    /\ aAns.data.kind = "object"
    /\ aAns.data.error_code = Missing /\ aAns.data.error_description = Missing
    /\ aAns.data.msg = Missing
    /\ aResp.status = 401 /\ aResp.code = "SUPABASE_ERROR"

\* the user call of authMiddleware failed, or its user lacks id or email
UserCallFailed ==
    \/ aAns.kind = "neterr"
    \/ /\ aAns.kind = "resp"
       /\ \/ ~IsOk(aAns.status)
          \/ aAns.data.kind # "object"
          \/ Falsy(aAns.data.id)
          \/ Falsy(aAns.data.email)

\* next was called only after a 2xx answer with a user that has id and email,
\* stored in the context
NextOnlyForUser ==
    nextCalled =>
        /\ aAns.kind = "resp" /\ IsOk(aAns.status)
        /\ aAns.data.kind = "object"
        /\ ~Falsy(aAns.data.id) /\ ~Falsy(aAns.data.email)
        /\ ctxUser = aAns.data
        /\ aCalls = 1

MissingHeaderRejected ==
    Falsy(aIn.authorization) =>
        /\ aPc = "done"
        /\ aResp = AuthError(401, "MISSING_AUTHORIZATION",
                             "Authorization header is required")
        /\ aCalls = 0
        /\ ~nextCalled

\* C19: authMiddleware calls next only after the identity provider returned
\* 2xx with a user that has id and email, which it stored in the context; a
\* missing Authorization header gives 401 MISSING_AUTHORIZATION without a
\* call; a missing API key, a failed user call or a user lacking id or email
\* gives 401 UNAUTHORIZED; next is not called in any of these cases.
C19_MiddlewareGate ==
    (aEndpoint = "authMiddleware" /\ aPc # "idle") =>
        /\ NextOnlyForUser
        /\ MissingHeaderRejected
        /\ (~Falsy(aIn.authorization) /\ (Falsy(aIn.apikey) \/ UserCallFailed)) =>
              /\ aPc = "done"
              /\ aResp = Unauthorized
              /\ ~nextCalled

\* the same when the configured base URL is absent or a valid URL
C19_HoldsForValidBase ==
    (aEndpoint = "authMiddleware" /\ aPc # "idle" /\ BaseResolves(aIn.baseUrl)) =>
        /\ NextOnlyForUser
        /\ MissingHeaderRejected
        /\ (~Falsy(aIn.authorization) /\ (Falsy(aIn.apikey) \/ UserCallFailed)) =>
              /\ aPc = "done"
              /\ aResp = Unauthorized
              /\ ~nextCalled

\* next is never called without an accepted user, whatever the configuration
C19_NextNeverWithoutUser ==
    aEndpoint = "authMiddleware" => NextOnlyForUser

PlansAnswered == aEndpoint = "plans" /\ aPc = "done"

\* the catalog version the billing engine listed last
LastCatalog == catalogs[Len(catalogs)]

\* the plans of all products of a catalog version
CatalogPlans(catalog) ==
    UNION { {catalog.products[i].plans[j] : j \in 1..Len(catalog.products[i].plans)} :
            i \in 1..Len(catalog.products) }

\* the ids of the plans in the response
OutputIds == {plansOut[i].id : i \in 1..Len(plansOut)}

\* the plan passes the interval filter of the request
IntervalAdmits(interval, name) ==
    \/ Falsy(interval)
    \/ interval = "year" /\ idIncludes(name, "annual")
    \/ interval = "month" /\ idIncludes(name, "monthly")

OnlyTrial(plan) == \A i \in 1..Len(plan.phases) : plan.phases[i] = "TRIAL"

HasDefaultList(catalog) ==
    \E i \in 1..Len(catalog.priceLists) : catalog.priceLists[i].name = "DEFAULT"

\* C21 as stated: a plan of the catalog is in the output exactly when it has an
\* EVERGREEN phase and is listed in the price list named DEFAULT
C21_AppearsIffEvergreenAndDefault ==
    (PlansAnswered /\ catalogs # <<>>) =>
        \A p \in CatalogPlans(LastCatalog) :
            (p.name \in OutputIds) <=>
                (evergreenPhase(p) /\ inDefaultPriceList(LastCatalog, p))

\* C21: a plan of the catalog is in the output exactly when it has an
\* EVERGREEN phase, is listed in the price list named DEFAULT and passes the
\* interval filter of the request; a plan with TRIAL phases only is never in
\* the output, and without a price list named DEFAULT the output has no plan
C21_AppearsIffEvergreenDefaultAndInterval ==
    (PlansAnswered /\ catalogs # <<>>) =>
        /\ \A p \in CatalogPlans(LastCatalog) :
            /\ (p.name \in OutputIds) <=>
                  /\ evergreenPhase(p)
                  /\ inDefaultPriceList(LastCatalog, p)
                  /\ IntervalAdmits(aIn.interval, p.name)
            /\ OnlyTrial(p) => p.name \notin OutputIds
        /\ ~HasDefaultList(LastCatalog) => plansOut = <<>> /\ aResp.status # 200

\* a listed plan with TRIAL phases only and an unlisted EVERGREEN plan were
\* skipped while the other plans were returned
C21_Witness ==
    /\ PlansAnswered /\ aResp.status = 200 /\ Falsy(aIn.interval)
    /\ catalogs # <<>>
    /\ BasicTrial \in CatalogPlans(LastCatalog)
    /\ inDefaultPriceList(LastCatalog, BasicTrial)
    /\ CustomMonthly \in CatalogPlans(LastCatalog)
    /\ BasicTrial.name \notin OutputIds
    /\ CustomMonthly.name \notin OutputIds
    /\ BasicMonthly.name \in OutputIds

\* the products of the last catalog version that hold the plan of an output entry
ProductsOf(id) ==
    {LastCatalog.products[i] : i \in
        {k \in 1..Len(LastCatalog.products) :
            \E j \in 1..Len(LastCatalog.products[k].plans) :
                LastCatalog.products[k].plans[j].name = id}}

MappedProducts == {"Free", "Basic", "Premium", "Enterprise"}

\* C22: in every /plans output a plan has a contactUs block exactly when its
\* tier is enterprise and is not selectable exactly when its tier is
\* enterprise; a plan of a product outside the tier mapping has tier basic, is
\* selectable and has no contactUs block
C22_EnterpriseOnlyContactUs ==
    PlansAnswered =>
        \A i \in 1..Len(plansOut) :
            /\ plansOut[i].contactUs <=> plansOut[i].tier = "enterprise"
            /\ ~plansOut[i].selectable <=> plansOut[i].tier = "enterprise"
            /\ \A product \in ProductsOf(plansOut[i].id) :
                /\ product.name = "Enterprise" <=> plansOut[i].tier = "enterprise"
                /\ product.name \notin MappedProducts =>
                    /\ plansOut[i].tier = "basic"
                    /\ plansOut[i].selectable
                    /\ ~plansOut[i].contactUs

\* one output holds an enterprise plan, a basic plan and a plan of an
\* unmapped product
C22_Witness ==
    /\ PlansAnswered /\ aResp.status = 200
    /\ \E i, j, k \in 1..Len(plansOut) :
        /\ plansOut[i].tier = "enterprise" /\ plansOut[i].contactUs
        /\ ~plansOut[i].selectable
        /\ plansOut[j].name = "Basic Plan" /\ plansOut[j].selectable
        /\ plansOut[k].name = "Partner" /\ plansOut[k].tier = "basic"
        /\ ~plansOut[k].contactUs

\* fetchKillBillPlans returned a list of plans
FetchSucceeded == aAns.kind = "ok" /\ catalogs # <<>>

\* the transformed plans of the last catalog version, in order
TransformedPlans == plansOfCatalog(LastCatalog, LastCatalog.products)

\* the transformed plans whose id passes the interval filter of the request
MatchingPlans ==
    SelectSeq(TransformedPlans, LAMBDA p : IntervalAdmits(aIn.interval, p.id))

C23_Witness ==
    /\ PlansAnswered /\ FetchSucceeded
    /\ aIn.interval = "month"
    /\ TransformedPlans # <<>>
    /\ MatchingPlans = <<>>
    /\ aResp.status = 404

CatalogFetchFailed == aAns.kind \in {"neterr", "rejected", "non2xx", "badjson"}

\* C24: every failure of the catalog fetch of GET /plans (a network error, a
\* rejection with a value that is no Error, a non-2xx status) is answered 503
\* KILLBILL_UNAVAILABLE, whatever the cause
C24_FetchFailureIsUnavailable ==
    (PlansAnswered /\ CatalogFetchFailed) =>
        /\ aResp.status = 503
        /\ aResp.code = "KILLBILL_UNAVAILABLE"
        /\ aResp.message = "Kill Bill service is currently unavailable"
        /\ plansOut = <<>>

\* the billing engine answered 500 and the client got 503
C24_Witness ==
    /\ PlansAnswered
    /\ aAns.kind = "non2xx" /\ aAns.status = 500
    /\ aCalls = 1
    /\ aResp.status = 503

\* fetch rejected with a value that is no Error and the client got 503
C24_RejectionWitness ==
    PlansAnswered /\ aAns.kind = "rejected" /\ aResp.status = 503

\* the billing engine answered 2xx with an empty array of catalog versions
EmptyCatalogArray == PlansAnswered /\ aAns.kind = "ok" /\ catalogs = <<>>

\* C25 as stated: a 2xx answer with an empty array of catalog versions is
\* answered 404 NO_PLANS_AVAILABLE
C25_EmptyArrayIsNoPlans ==
    EmptyCatalogArray =>
        aResp.status = 404 /\ aResp.code = "NO_PLANS_AVAILABLE"

\* C25: a 2xx answer with an empty array of catalog versions is answered 503
\* KILLBILL_UNAVAILABLE, like a failed fetch
C25_EmptyArrayIsUnavailable ==
    EmptyCatalogArray =>
        /\ aResp.status = 503
        /\ aResp.code = "KILLBILL_UNAVAILABLE"
        /\ plansOut = <<>>

C25_Witness == EmptyCatalogArray /\ aAns.status = 200 /\ aResp.status = 503

PlanNames(catalog) == {p.name : p \in CatalogPlans(catalog)}

\* C29: the /plans output is built from the last element of the array of
\* catalog versions only: every plan of the output is a transformed plan of
\* the last version, and a plan that only an earlier version holds is not in
\* the output
C29_OnlyLastCatalogVersion ==
    (PlansAnswered /\ catalogs # <<>>) =>
        /\ \A i \in 1..Len(plansOut) :
              \E j \in 1..Len(TransformedPlans) : plansOut[i] = TransformedPlans[j]
        /\ OutputIds \subseteq PlanNames(LastCatalog)
        /\ \A v \in 1..(Len(catalogs) - 1) :
              \A name \in PlanNames(catalogs[v]) \ PlanNames(LastCatalog) :
                  name \notin OutputIds

\* two versions were returned; the output holds the plans of the last one and
\* not the plan of the earlier one
C29_Witness ==
    /\ PlansAnswered /\ aResp.status = 200
    /\ Len(catalogs) = 2
    /\ PlanNames(catalogs[1]) \ PlanNames(LastCatalog) # {}
    /\ PlanNames(catalogs[1]) \cap OutputIds = {}
    /\ plansOut # <<>>

\* ------------------------------------------------------------------ concurrency
\* the subscriptions of the bundles that block a further creation
ActiveSubscriptions(bs) ==
    {ij \in (1..Len(bs)) \X (1..3) :
        /\ ij[2] <= Len(bs[ij[1]])
        /\ bs[ij[1]][ij[2]].state = "ACTIVE"
        /\ bs[ij[1]][ij[2]].cancelledDate = NULL}

\* the requests answered 201
CreatedFor(u) == {r \in Reqs : pc[r] = "done" /\ resp[r].status = 201 /\ user[r] = u}

\* the request passed its existing-subscription check on bundles that held no
\* active subscription
PassedCheck(r) ==
    OutcomeOf(r, "bundles") = "ok" /\ ~HoldsActive(chk[r]) /\ ~activeAtCheck[r]

\* C26: the check and the creation of one request are not atomic; every
\* request decides on the bundles it read itself and every creation the
\* engine accepts adds a subscription, so two requests of one user that both
\* read the bundles before either creates both create, and the account ends
\* with two active subscriptions (the state C26_Witness)
C26_EachCreationAddsSubscription ==
    \A u \in Users :
        /\ Cardinality(ActiveSubscriptions(bundles[u])) >= Cardinality(CreatedFor(u))
        /\ \A r \in CreatedFor(u) :
              OutcomeOf(r, "bundles") = "ok" => ~HoldsActive(chk[r])

\* two requests of one user passed the check while the account held no active
\* subscription, both were answered 201 and the account holds two
C26_Witness ==
    \E u \in Users : \E r1, r2 \in Reqs :
        /\ r1 # r2
        /\ user[r1] = u /\ user[r2] = u
        /\ PassedCheck(r1) /\ PassedCheck(r2)
        /\ Issued(r1, "createSub") /\ Issued(r2, "createSub")
        /\ resp[r1].status = 201 /\ resp[r2].status = 201
        /\ Cardinality(ActiveSubscriptions(bundles[u])) = 2

\* ------------------------------------------------------------------ call order
IsPrefixOf(s, t) == Len(s) <= Len(t) /\ s = SubSeq(t, 1, Len(s))

\* the calls of a request whose lookup returned the account
CallsAccountFound == <<"lookup", "bundles", "createSub">>

\* the calls of a request whose lookup returned no account
CallsAccountCreated == <<"lookup", "createAccount", "refetch", "bundles", "createSub">>

\* C27: the billing-engine calls of one request are issued in the order
\* lookup, (account creation and re-fetch, only when the lookup returned no
\* account), existing-subscription check, subscription creation; a call is
\* issued only when every earlier one has been answered, none is issued
\* twice, and there are at most 5
C27_SequentialCalls ==
    \A r \in Reqs :
        /\ IsPrefixOf(calls[r], CallsAccountFound)
              \/ IsPrefixOf(calls[r], CallsAccountCreated)
        /\ Issued(r, "createAccount") <=> LookupFailed(r)
        /\ Issued(r, "refetch") => OutcomeOf(r, "createAccount") = "ok"
        /\ Len(calls[r]) <= 5
        /\ IF pc[r] \in {"idle", "done"}
             THEN Len(outs[r]) = Len(calls[r])
             ELSE /\ Len(outs[r]) = Len(calls[r]) - 1
                  /\ calls[r][Len(calls[r])] = pc[r]
        /\ \A i, j \in 1..Len(calls[r]) : calls[r][i] = calls[r][j] => i = j

\* one request issued all five calls and was answered 201 while the other
\* issued the three calls of a request whose account exists
C27_Witness ==
    \E r1, r2 \in Reqs :
        /\ calls[r1] = CallsAccountCreated /\ Len(outs[r1]) = 5
        /\ resp[r1].status = 201
        /\ calls[r2] = CallsAccountFound /\ Len(outs[r2]) = 3
        /\ pc[r2] = "done"

\* ------------------------------------------------------------------ identity-provider calls
\* the invocation passes input validation and configuration resolution: the
\* body is an object, no required field is missing, redirect_to is a URL, the
\* downstream URL can be built and the API key is configured
InputAccepted ==
    /\ ~BodyRaised
    /\ MissingFields = {}
    /\ aEndpoint = "authorize" => IsAbsoluteUrl(aIn.redirect_to)
    /\ BaseResolves(aIn.baseUrl)
    /\ aEndpoint \in KeyedEndpoints => ~Falsy(aIn.apikey)

\* C28: an invocation of an auth endpoint that passes input validation and
\* configuration resolution issues exactly one call to the identity provider,
\* before and after the answer, whatever the answer is (a redirect included)
C28_ExactlyOneIdpCall ==
    (aEndpoint \in AuthEndpoints /\ aPc # "idle") =>
        /\ aCalls <= 1
        /\ InputAccepted => aCalls = 1
        /\ (aCalls = 1 /\ aPc = "done") => aAns # NoAnswer

\* authorize was answered with a redirect, passed it on and issued one call
C28_Witness ==
    /\ aEndpoint = "authorize" /\ aPc = "done"
    /\ InputAccepted
    /\ aAns.status = 302 /\ aResp.status = 302
    /\ aCalls = 1

\* ------------------------------------------------------------------ CORS headers
\* corsMiddleware has returned
CorsDone == aEndpoint = "cors" /\ aPc = "done"

CorsEnabled == getCorsConfig(aIn.corsEnabled, aIn.corsOrigin).enabled

ConfiguredOrigin == getCorsConfig(aIn.corsEnabled, aIn.corsOrigin).origin

\* the request's Origin equals an entry of the configured list
OriginListed ==
    /\ aIn.originHeader # Missing
    /\ \E i \in 1..Len(splitComma(ConfiguredOrigin)) :
          trim(splitComma(ConfiguredOrigin)[i]) = <<aIn.originHeader>>

\* C30: with CORS enabled, Access-Control-Allow-Origin is set to "*" when the
\* configured origin is "*", to the request's Origin when that Origin equals
\* an entry of the configured comma-separated list, and no CORS header is set
\* otherwise (an Origin outside the list, or no Origin); with CORS disabled no
\* CORS header is set and the next handler is called
C30_AllowOriginOnlyForConfiguredOrigins ==
    CorsDone =>
        /\ CorsEnabled =>
            /\ corsOut.allowOrigin # Missing =>
                  \/ ConfiguredOrigin = <<"*">> /\ corsOut.allowOrigin = "*"
                  \/ /\ ConfiguredOrigin # <<"*">>
                     /\ OriginListed
                     /\ corsOut.allowOrigin = aIn.originHeader
            /\ ConfiguredOrigin = <<"*">> => corsOut.allowOrigin = "*"
            /\ (ConfiguredOrigin # <<"*">> /\ OriginListed) =>
                  corsOut.allowOrigin = aIn.originHeader
            /\ (ConfiguredOrigin # <<"*">> /\ ~OriginListed) =>
                  corsOut = NoCorsHeaders
        /\ ~CorsEnabled => corsOut = NoCorsHeaders /\ nextCalled

\* a request whose Origin has a listed origin as a prefix got no CORS header
\* from a middleware configured with a list
C30_Witness ==
    /\ CorsDone /\ CorsEnabled
    /\ Len(splitComma(ConfiguredOrigin)) = 3
    /\ aIn.originHeader = "https://app.example.evil.example"
    /\ aIn.method = "GET" /\ nextCalled
    /\ corsOut = NoCorsHeaders

\* a listed Origin, written after white space in the list, was allowed
C30_ListedWitness ==
    /\ CorsDone /\ CorsEnabled
    /\ aIn.originHeader = "https://staging.example"
    /\ corsOut.allowOrigin = "https://staging.example"

\* CORS was disabled by CORS_ENABLED=FALSE and an OPTIONS request went through
C30_DisabledWitness ==
    /\ CorsDone /\ aIn.corsEnabled = "FALSE" /\ aIn.method = "OPTIONS"
    /\ nextCalled /\ corsOut = NoCorsHeaders

====
